---- MODULE Spec2Model ----
(***************************************************************************)
(* A model of pip's wheel build orchestrator,                              *)
(* src/src/pip/_internal/wheel_builder.py.                                 *)
(*                                                                         *)
(* Four specifications share the module's variables:                       *)
(*   SpecTag     replace_python_tag on bounded file names                  *)
(*   SpecPolicy  should_build / should_cache on one requirement            *)
(*   SpecLegacy  _build_wheel_legacy / get_legacy_build_wheel_path         *)
(*   Spec        WheelBuilder.build on a batch of requirements             *)
(* Each specification drives its own variable and leaves the others at     *)
(* their idle value.                                                       *)
(*                                                                         *)
(* Strings are sequences of one-character strings, so that split, join,    *)
(* sorting and the egg-info regular expression are computed, not assumed.  *)
(***************************************************************************)
EXTENDS Integers, Sequences, FiniteSets, TLC

VARIABLES
    \* the pure functions' calls: arguments, position and outcome
    tag, policy, legacy,
    \* WheelBuilder's configuration and build()'s argument
    should_unpack, self_wheel_dir, cache_dir, self_build_options,
    \* build(): its position, locals, return value
    pc, loop_req, buildset, cur, python_tag, wheel_path, wheel_file,
    build_success, build_failure, outcome,
    \* the builder's list of built file names
    wheel_filenames,
    \* the requirement objects handed to build() so far
    reqs,
    \* the scoped resources held, the file system, what happened so far
    held, fs, hist

config == <<should_unpack, self_wheel_dir, cache_dir, self_build_options>>

bld == <<config, pc, loop_req, buildset, cur, python_tag, wheel_path, wheel_file,
         build_success, build_failure, outcome, wheel_filenames, reqs, held,
         fs, hist>>

vars == <<tag, policy, legacy, bld>>

\* A Python None where a string is expected. No string of the model that may
\* be None is ever empty (they are paths and file names), so None and ""
\* share the value, as they share their truth value in Python.
None == <<>>

\* The outcome of a call that may raise: the exception's name ("" when it
\* returned) and the value returned (dflt when it raised).
Returned(v) == [raised |-> "", ret |-> v]

Raised(exception, dflt) == [raised |-> exception, ret |-> dflt]

(***************************************************************************)
(* Bounds of the model.                                                    *)
(***************************************************************************)
\* longest wheel file name given to replace_python_tag
MaxNameLen == 9
\* longest link base name given to _contains_egg_info
MaxBaseLen == 3
\* longest file name the legacy build leaves in its destination directory
MaxFileNameLen == 2
\* most files the legacy build leaves in its destination directory
MaxFiles == 3
\* most requirements handed to one build() call
MaxReqs == 2

(***************************************************************************)
(* Strings.                                                                *)
(***************************************************************************)
\* All strings over alphabet of length at most n.
Strings(alphabet, n) == UNION {[1..k -> alphabet] : k \in 0..n}

\* The characters of the model in the order of their code points (ASCII).
CodePointOrder ==
    <<"!", "+", "-", ".", "/", "1", "_", "a", "b", "c", "h", "l", "n", "p",
      "w", "y">>

\* The rank of a character's code point, the order Python compares by.
Ord(c) == CHOOSE i \in 1..Len(CodePointOrder) : CodePointOrder[i] = c

\* s < t for Python strings: lexicographic by code point, a proper prefix first.
RECURSIVE StrLess(_, _)
StrLess(s, t) ==
    IF t = <<>> THEN FALSE
    ELSE IF s = <<>> THEN TRUE
    ELSE IF Head(s) # Head(t) THEN Ord(Head(s)) < Ord(Head(t))
    ELSE StrLess(Tail(s), Tail(t))

\* str.split(sep): the fields between the separators, empty fields kept.
RECURSIVE SplitFrom(_, _, _)
SplitFrom(s, sep, field) ==
    IF s = <<>> THEN <<field>>
    ELSE IF Head(s) = sep THEN <<field>> \o SplitFrom(Tail(s), sep, <<>>)
    ELSE SplitFrom(Tail(s), sep, Append(field, Head(s)))

Split(s, sep) == SplitFrom(s, sep, <<>>)

\* sep.join(parts)
RECURSIVE Join(_, _)
Join(parts, sep) ==
    IF parts = <<>> THEN <<>>
    ELSE IF Len(parts) = 1 THEN parts[1]
    ELSE parts[1] \o <<sep>> \o Join(Tail(parts), sep)

\* sorted(names): insertion sort by StrLess.
RECURSIVE InsertSorted(_, _)
InsertSorted(x, s) ==
    IF s = <<>> THEN <<x>>
    ELSE IF StrLess(Head(s), x) THEN <<Head(s)>> \o InsertSorted(x, Tail(s))
    ELSE <<x>> \o s

RECURSIVE sorted(_)
sorted(names) ==
    IF names = <<>> THEN <<>>
    ELSE InsertSorted(Head(names), sorted(Tail(names)))

\* The orders a directory listing can return a set of names in.
Listings(files) ==
    {l \in [1..Cardinality(files) -> files] :
        \A i, j \in 1..Cardinality(files) : i # j => l[i] # l[j]}

\* Whether p is a prefix of s.
IsPrefix(p, s) == Len(p) <= Len(s) /\ SubSeq(s, 1, Len(p)) = p

\* os.path.join(directory, name): an absolute name stands for itself.
PathJoin(directory, name) ==
    IF name # <<>> /\ name[1] = "/" THEN name
    ELSE directory \o <<"/">> \o name

\* os.path.basename(path): what follows the last slash.
Basename(path) == LET parts == Split(path, "/") IN parts[Len(parts)]

\* os.path.relpath(path, start) for a path below start; a path that is not
\* below start is reached by going up.
Relpath(path, start) ==
    IF IsPrefix(start \o <<"/">>, path)
    THEN SubSeq(path, Len(start) + 2, Len(path))
    ELSE <<".", ".", "/">> \o path

(***************************************************************************)
(* replace_python_tag (lines 50-55).                                       *)
(***************************************************************************)
IndexError == "IndexError"

\* A faulty variant of replace_python_tag, which writes the tag into the
\* field before the last (parts[-2]).
replace_python_tag_last2(wheelname, new_tag) ==
    LET parts == Split(wheelname, "-")
        n == Len(parts)
    IN  IF n < 2 THEN Raised(IndexError, <<>>)
        ELSE Returned(Join([parts EXCEPT ![n - 1] = new_tag], "-"))

\* parts[-3] = new_tag raises IndexError when there are fewer than 3 parts.
replace_python_tag(wheelname, new_tag) ==
    LET parts == Split(wheelname, "-")
        n == Len(parts)
    IN  IF n < 3 THEN Raised(IndexError, <<>>)
        ELSE Returned(Join([parts EXCEPT ![n - 2] = new_tag], "-"))

\* Characters of the file names given to replace_python_tag.
NameChars == {"a", "b", "-"}

\* Tags asked for: a tag holds no dash (build() passes the implementation tag).
NewTags == {<<"y">>, <<"p", "y">>}

TagIdle == [pc |-> "idle"]

TagInit ==
    \E wheelname \in Strings(NameChars, MaxNameLen), new_tag \in NewTags :
        tag = [pc |-> "call", wheelname |-> wheelname, new_tag |-> new_tag,
               out |-> Returned(<<>>)]

\* One call of replace_python_tag(wheelname, new_tag).
CallReplacePythonTag ==
    /\ tag.pc = "call"
    /\ tag' = [tag EXCEPT !.pc = "returned",
                          !.out = replace_python_tag(tag.wheelname, tag.new_tag)]
    /\ UNCHANGED <<policy, legacy, bld>>

(***************************************************************************)
(* Build policy: should_build, should_cache (lines 58-139).                *)
(***************************************************************************)
\* [a-z0-9_.] and [a-z0-9_.!+-] of _egg_info_re, restricted to the alphabet.
EggNameClass == {"a", "b", "1", "_", "."}

EggVersionClass == EggNameClass \cup {"!", "+", "-"}

\* re.search of ([a-z0-9_.]+)-([a-z0-9_.!+-]+): a name character, a dash and
\* a version character in a row, anywhere in s.
_contains_egg_info(s) ==
    \E i \in 1..(Len(s) - 2) :
        /\ s[i] \in EggNameClass
        /\ s[i + 1] = "-"
        /\ s[i + 2] \in EggVersionClass

\* A faulty variant of should_build, without the rule for constraints.
should_build_no_constraint(req, need_wheel, check_binary_allowed) ==
    IF req.is_wheel THEN FALSE
    ELSE IF need_wheel THEN TRUE
    ELSE IF req.editable \/ ~req.has_source_dir THEN FALSE
    ELSE IF ~(req.id \in check_binary_allowed) THEN FALSE
    ELSE TRUE

\* A faulty variant of should_build, without the rule for editable and
\* source-less requirements.
should_build_no_editable(req, need_wheel, check_binary_allowed) ==
    IF req.constraint THEN FALSE
    ELSE IF req.is_wheel THEN FALSE
    ELSE IF need_wheel THEN TRUE
    ELSE IF ~(req.id \in check_binary_allowed) THEN FALSE
    ELSE TRUE

\* check_binary_allowed is a predicate on requirements: the set of the
\* requirement ids it allows.
should_build(req, need_wheel, check_binary_allowed) ==
    IF req.constraint THEN FALSE
    ELSE IF req.is_wheel THEN FALSE
    ELSE IF need_wheel THEN TRUE
    ELSE IF req.editable \/ ~req.has_source_dir THEN FALSE
    ELSE IF ~(req.id \in check_binary_allowed) THEN FALSE
    ELSE TRUE

\* The outcome of should_cache: what it returns (or the assertion it fails),
\* and which collaborators it asked on the way: the VCS backend's
\* is_immutable_rev_checkout and the egg-info match on the link's base name.
CacheOutcome(ret, raised, vcs_asked, egg_asked) ==
    [ret |-> ret, raised |-> raised, vcs_asked |-> vcs_asked,
     egg_asked |-> egg_asked]

\* A faulty variant of should_cache, which asks should_build with
\* need_wheel=True.
should_cache_need_wheel(req, check_binary_allowed, is_immutable) ==
    IF ~should_build(req, TRUE, check_binary_allowed)
    THEN CacheOutcome(FALSE, "", FALSE, FALSE)
    ELSE IF req.link.is_vcs
    THEN IF req.editable \/ ~req.has_source_dir
         THEN CacheOutcome(FALSE, "AssertionError", FALSE, FALSE)
         ELSE CacheOutcome(is_immutable, "", TRUE, FALSE)
    ELSE CacheOutcome(_contains_egg_info(req.link.base), "", FALSE, TRUE)

\* A faulty variant of should_cache, which looks for egg info before it
\* looks at the VCS.
should_cache_egg_first(req, check_binary_allowed, is_immutable) ==
    IF ~should_build(req, FALSE, check_binary_allowed)
    THEN CacheOutcome(FALSE, "", FALSE, FALSE)
    ELSE IF _contains_egg_info(req.link.base)
    THEN CacheOutcome(TRUE, "", FALSE, TRUE)
    ELSE IF req.link.is_vcs
    THEN CacheOutcome(is_immutable, "", TRUE, TRUE)
    ELSE CacheOutcome(FALSE, "", FALSE, TRUE)

\* is_immutable is the answer is_immutable_rev_checkout gives when asked.
should_cache(req, check_binary_allowed, is_immutable) ==
    IF ~should_build(req, FALSE, check_binary_allowed)
    THEN CacheOutcome(FALSE, "", FALSE, FALSE)
    ELSE IF req.link.is_vcs
    THEN IF req.editable \/ ~req.has_source_dir
         THEN CacheOutcome(FALSE, "AssertionError", FALSE, FALSE)
         ELSE CacheOutcome(is_immutable, "", TRUE, FALSE)
    ELSE CacheOutcome(_contains_egg_info(req.link.base), "", FALSE, TRUE)

\* Characters of a link's base name (its file name without the extension).
BaseChars == {"a", "-", "+"}

\* A link: its URL, whether the URL's scheme is a VCS scheme, and the base
\* name link.splitext() gives.
Links(urls, bases) == [url : urls, is_vcs : BOOLEAN, base : bases]

\* The requirement fields the policy reads.
PolicyReqs(ids, bases) ==
    [id : ids, constraint : BOOLEAN, is_wheel : BOOLEAN, editable : BOOLEAN,
     has_source_dir : BOOLEAN, link : Links({<<"u">>}, bases)]

PolicyIdle == [pc |-> "idle"]

PolicyInit ==
    \E req \in PolicyReqs({1}, Strings(BaseChars, MaxBaseLen)),
       check_binary_allowed \in SUBSET {1}, is_immutable \in BOOLEAN :
        policy = [pc |-> "call", req |-> req,
                  check_binary_allowed |-> check_binary_allowed,
                  is_immutable |-> is_immutable,
                  need_wheel |-> FALSE, built |-> FALSE,
                  cached |-> CacheOutcome(FALSE, "", FALSE, FALSE)]

\* One call of should_build(req, need_wheel, check_binary_allowed).
CallShouldBuild ==
    /\ policy.pc = "call"
    /\ \E need_wheel \in BOOLEAN :
        policy' = [policy EXCEPT
            !.pc = "should_build",
            !.need_wheel = need_wheel,
            !.built = should_build(policy.req, need_wheel,
                                   policy.check_binary_allowed)]
    /\ UNCHANGED <<tag, legacy, bld>>

\* One call of should_cache(req, check_binary_allowed).
CallShouldCache ==
    /\ policy.pc = "call"
    /\ policy' = [policy EXCEPT
            !.pc = "should_cache",
            !.cached = should_cache(policy.req, policy.check_binary_allowed,
                                    policy.is_immutable)]
    /\ UNCHANGED <<tag, legacy, bld>>

(***************************************************************************)
(* The legacy protocol: get_legacy_build_wheel_path, _build_wheel_legacy   *)
(* (lines 163-238).                                                        *)
(***************************************************************************)
\* A faulty variant of get_legacy_build_wheel_path, which does not sort the
\* names.
get_legacy_build_wheel_path_unsorted(names, temp_dir) ==
    IF names = <<>>
    THEN [wheel_path |-> None, warning |-> "created no files"]
    ELSE [wheel_path |-> PathJoin(temp_dir, names[1]),
          warning |-> IF Len(names) > 1
                      THEN "created more than one file" ELSE ""]

\* What get_legacy_build_wheel_path returns, and the warning it logs.
get_legacy_build_wheel_path(names, temp_dir) ==
    LET ordered == sorted(names)
    IN  IF ordered = <<>>
        THEN [wheel_path |-> None, warning |-> "created no files"]
        ELSE [wheel_path |-> PathJoin(temp_dir, ordered[1]),
              warning |-> IF Len(ordered) > 1
                          THEN "created more than one file" ELSE ""]

\* command_raises: call_subprocess raises; names: what os.listdir(tempd)
\* returns after the command. listed records whether os.listdir was called.
_build_wheel_legacy(tempd, command_raises, names) ==
    IF command_raises
    THEN [wheel_path |-> None, warning |-> "", listed |-> FALSE,
          error |-> "Failed building wheel"]
    ELSE LET found == get_legacy_build_wheel_path(names, tempd)
         IN  [wheel_path |-> found.wheel_path, warning |-> found.warning,
              listed |-> TRUE, error |-> ""]

\* Characters of the names of the files a legacy build leaves behind.
FileChars == {"a", "b"}

FileNames == Strings(FileChars, MaxFileNameLen) \ {<<>>}

\* The temporary build directory of one build.
TempDir == <<"/", "t">>

LegacyIdle == [pc |-> "idle"]

LegacyInit ==
    \E files \in {f \in SUBSET FileNames : Cardinality(f) <= MaxFiles},
       command_raises \in BOOLEAN :
        legacy = [pc |-> "call", files |-> files,
                  command_raises |-> command_raises, names |-> <<>>,
                  out |-> [wheel_path |-> None, warning |-> "",
                           listed |-> FALSE, error |-> ""]]

\* One call of _build_wheel_legacy: the command leaves legacy.files in the
\* destination directory, and os.listdir returns them in some order.
CallBuildWheelLegacy ==
    /\ legacy.pc = "call"
    /\ \E names \in Listings(legacy.files) :
        legacy' = [legacy EXCEPT
            !.pc = "returned",
            !.names = IF legacy.command_raises THEN <<>> ELSE names,
            !.out = _build_wheel_legacy(TempDir, legacy.command_raises, names)]
    /\ UNCHANGED <<tag, policy, bld>>

(***************************************************************************)
(* WheelBuilder.build (lines 246-530).                                     *)
(*                                                                         *)
(* A requirement is known by its position in the iterable handed to        *)
(* build(): ids 1, 2, ... The first loop binds req to each requirement in  *)
(* turn; of a requirement it has passed, reqs keeps the fields build()     *)
(* writes (source_dir and link). What build() reads of a requirement or of *)
(* the file system in one place only is drawn where it is read.            *)
(***************************************************************************)
IdChar(id) == <<"1", "2", "3", "4", "5">>[id]

\* self._wheel_dir of `pip wheel`, self.wheel_cache.cache_dir, the ephemeral
\* cache's root, self.preparer.build_dir.
WheelDir == <<"/", "w">>

CacheRoot == <<"/", "c">>

EphemRoot == <<"/", "e">>

BuildDir == <<"/", "b">>

\* The source directory a requirement was prepared in.
SourceDir(id) == <<"/", "s", "/", IdChar(id)>>

\* req.ensure_build_location(build_dir): the requirement's directory there.
BuildLocation(id) == PathJoin(BuildDir, <<IdChar(id)>>)

\* pep425tags.implementation_tag
ImplementationTag == <<"c", "p">>

\* The file name a PEP 517 backend's build_wheel returns.
Pep517WheelName ==
    <<"a", "-", "1", "-", "p", "-", "n", "-", "l", ".", "w", "h", "l">>

\* The files setup.py bdist_wheel may leave in its destination directory: a
\* wheel, and a stray file whose name sorts before the wheel's.
LegacyWheelName ==
    <<"b", "-", "1", "-", "p", "-", "n", "-", "l", ".", "w", "h", "l">>

StrayName == <<"a", "!">>

LegacyFileNames == {LegacyWheelName, StrayName}

\* Base names of the links of the requirements handed to build(): one with
\* a name-version pattern, one without.
BuildBases == {<<"a", "-", "1">>, <<"a">>}

\* The URL of the link of the requirement at position id.
SourceUrl(id) == <<"u", IdChar(id)>>

\* The requirements the iterable may yield at position id, each with the
\* answers its collaborators give about it: binary_allowed is what
\* self.check_binary_allowed(req) returns, is_immutable_rev what the VCS
\* backend's is_immutable_rev_checkout returns for its link.
BuildReqs(id) ==
    {r \in [id : {id}, constraint : BOOLEAN, is_wheel : BOOLEAN,
            editable : BOOLEAN, has_source_dir : BOOLEAN,
            link : Links({SourceUrl(id)}, BuildBases),
            binary_allowed : BOOLEAN, is_immutable_rev : BOOLEAN] :
        r.is_immutable_rev => r.link.is_vcs}

\* self.check_binary_allowed as far as it is applied to r: the set of the
\* ids it allows.
BinaryAllowed(r) == IF r.binary_allowed THEN {r.id} ELSE {}

\* The fields of a requirement object that build() writes: source_dir, and
\* link, kept as the link's URL.
ReqObject(r) ==
    [source_dir |-> IF r.has_source_dir THEN SourceDir(r.id) ELSE None,
     link |-> r.link.url]

\* The directory name a link's fingerprint gives.
Fingerprint(link) == link.url

\* self.wheel_cache.get_path_for_link(link), get_ephem_path_for_link(link)
get_path_for_link(link) == PathJoin(cache_dir, Fingerprint(link))

get_ephem_path_for_link(link) == PathJoin(EphemRoot, Fingerprint(link))

\* A faulty variant of OutputDir, which does not ask should_cache.
OutputDirAlwaysPersistent(link, cache_available, cacheable) ==
    IF cache_available
    THEN get_path_for_link(link)
    ELSE get_ephem_path_for_link(link)

\* Lines 426-434: the output directory of a requirement to build.
OutputDir(link, cache_available, cacheable) ==
    IF cache_available /\ cacheable
    THEN get_path_for_link(link)
    ELSE get_ephem_path_for_link(link)

\* posixpath.splitext(name): the extension starts at the last dot.
Splitext(name) ==
    LET dots == {i \in 1..Len(name) : name[i] = "."}
        last == IF dots = {} THEN 0
                ELSE CHOOSE i \in dots : \A j \in dots : j <= i
    IN  IF last <= 1 THEN [base |-> name, ext |-> <<>>]
        ELSE [base |-> SubSeq(name, 1, last - 1),
              ext |-> SubSeq(name, last, Len(name))]

\* path_to_url(path) and, for a file: URL, its inverse, link.file_path.
path_to_url(path) == <<"file:", "/", "/">> \o path

FilePath(url) == SubSeq(url, 4, Len(url))

\* Link(url).is_wheel: the extension of the URL's last segment is .whl.
IsWheelUrl(url) == Splitext(Basename(url)).ext = <<".", "w", "h", "l">>

\* A faulty variant of _build_one_pep517, which ignores the build options.
_build_one_pep517_no_options_check(options, tempd, new_tag, backend, rename_raises) ==
    IF backend.raised # ""
    THEN [wheel_path |-> None, invoked |-> TRUE,
          error |-> "Failed building wheel"]
    ELSE [wheel_path |-> PathJoin(tempd, backend.ret), invoked |-> TRUE,
          error |-> ""]

\* _build_one_pep517 (lines 333-376). backend: what backend.build_wheel
\* does when called (raises, or returns a file name); rename_raises:
\* os.rename raises. invoked: whether build_wheel was called.
_build_one_pep517(options, tempd, new_tag, backend, rename_raises) ==
    IF options # <<>>
    THEN [wheel_path |-> None, invoked |-> FALSE,
          error |-> "Cannot build wheel using PEP 517 when --build-options is present"]
    ELSE IF backend.raised # ""
    THEN [wheel_path |-> None, invoked |-> TRUE,
          error |-> "Failed building wheel"]
    ELSE IF new_tag # None
    THEN LET new_name == replace_python_tag(backend.ret, new_tag)
         IN  IF new_name.raised # "" \/ rename_raises
             THEN [wheel_path |-> None, invoked |-> TRUE,
                   error |-> "Failed building wheel"]
             ELSE [wheel_path |-> PathJoin(tempd, new_name.ret),
                   invoked |-> TRUE, error |-> ""]
    ELSE [wheel_path |-> PathJoin(tempd, backend.ret), invoked |-> TRUE,
          error |-> ""]

others == <<tag, policy, legacy>>

\* The state of the build variables in the specifications of the pure
\* functions, where build() is not called.
BuildIdle ==
    /\ should_unpack = FALSE /\ self_wheel_dir = None /\ cache_dir = None
    /\ self_build_options = <<>>
    /\ pc = "idle" /\ loop_req = <<>> /\ buildset = <<>> /\ cur = 0
    /\ python_tag = None /\ wheel_path = None /\ wheel_file = None
    /\ build_success = <<>> /\ build_failure = <<>>
    /\ outcome = Returned(<<>>) /\ wheel_filenames = <<>> /\ reqs = <<>>
    /\ held = {} /\ fs = [dirs |-> {}, files |-> {}, removed |-> {},
             unpacked |-> {}]
    /\ hist = [cause |-> <<>>, protocol |-> <<>>, invoked |-> {},
               cleaned |-> {}, moved |-> <<>>, backend_name |-> <<>>,
               orig |-> <<>>, assigned |-> <<>>]

\* A WheelBuilder as __init__ leaves it (lines 249-274), with the sources
\* of no requirement prepared yet, and a call of build() about to start.
Init ==
    /\ tag = TagIdle /\ policy = PolicyIdle /\ legacy = LegacyIdle
    /\ should_unpack \in BOOLEAN
    /\ self_wheel_dir \in {None, WheelDir}
    /\ cache_dir \in {None, CacheRoot}
    /\ self_build_options \in {<<>>, <<"--opt">>}
    /\ pc = "start" /\ loop_req = <<>> /\ buildset = <<>> /\ cur = 0
    /\ python_tag = None /\ wheel_path = None /\ wheel_file = None
    /\ build_success = <<>> /\ build_failure = <<>>
    /\ outcome = Returned(<<>>) /\ wheel_filenames = <<>> /\ reqs = <<>>
    /\ held = {} /\ fs = [dirs |-> {}, files |-> {}, removed |-> {},
             unpacked |-> {}]
    /\ hist = [cause |-> <<>>, protocol |-> <<>>, invoked |-> {},
               cleaned |-> {}, moved |-> <<>>, backend_name |-> <<>>,
               orig |-> <<>>, assigned |-> <<>>]

\* A faulty variant of AssertMode, without the assertion.
AssertModeSkipped ==
    /\ pc = "start"
    /\ pc' = "filter"
    /\ UNCHANGED <<others, config, loop_req, buildset, cur, python_tag, wheel_path,
                   wheel_file, build_success, build_failure, outcome,
                   wheel_filenames, reqs, held, fs, hist>>

\* Lines 410-416: the mode assertion.
AssertMode ==
    /\ pc = "start"
    /\ IF \/ (should_unpack /\ self_wheel_dir = None)
          \/ (~should_unpack /\ self_wheel_dir # None)
       THEN pc' = "filter" /\ outcome' = outcome
       ELSE pc' = "raised" /\ outcome' = Raised("AssertionError", <<>>)
    /\ UNCHANGED <<others, config, loop_req, buildset, cur, python_tag, wheel_path,
                   wheel_file, build_success, build_failure, wheel_filenames,
                   reqs, held, fs, hist>>

\* A faulty variant of FilterNext, which keeps every requirement.
FilterNextKeepsAll ==
    /\ pc = "filter"
    /\ Len(reqs) < MaxReqs
    /\ \E r \in BuildReqs(Len(reqs) + 1) :
        LET selected == TRUE
            cache_available == cache_dir # None
            cached ==
                IF selected /\ cache_available
                THEN should_cache(r, BinaryAllowed(r), r.is_immutable_rev)
                ELSE CacheOutcome(FALSE, "", FALSE, FALSE)
            output_dir == OutputDir(r.link, cache_available, cached.ret)
        IN  /\ loop_req' = <<r>>
            /\ reqs' = Append(reqs, ReqObject(r))
            /\ hist' = [hist EXCEPT !.cause = Append(@, ""),
                                    !.protocol = Append(@, ""),
                                    !.moved = Append(@, None),
                                    !.backend_name = Append(@, None),
                                    !.orig = Append(@, ReqObject(r)),
                                    !.assigned = Append(@, 0)]
            /\ IF cached.raised # ""
               THEN /\ pc' = "raised"
                    /\ outcome' = Raised(cached.raised, <<>>)
                    /\ buildset' = buildset
               ELSE /\ pc' = pc
                    /\ outcome' = outcome
                    /\ buildset' =
                         IF selected
                         THEN Append(buildset, [req |-> r.id,
                                                output_dir |-> output_dir])
                         ELSE buildset
    /\ UNCHANGED <<others, config, cur, python_tag, wheel_path, wheel_file,
                   build_success, build_failure, wheel_filenames, held, fs>>

\* Lines 418-436: one iteration of the first loop, on the next requirement
\* of the iterable.
FilterNext ==
    /\ pc = "filter"
    /\ Len(reqs) < MaxReqs
    /\ \E r \in BuildReqs(Len(reqs) + 1) :
        LET selected == should_build(r, ~should_unpack, BinaryAllowed(r))
            cache_available == cache_dir # None
            cached ==
                IF selected /\ cache_available
                THEN should_cache(r, BinaryAllowed(r), r.is_immutable_rev)
                ELSE CacheOutcome(FALSE, "", FALSE, FALSE)
            output_dir == OutputDir(r.link, cache_available, cached.ret)
        IN  /\ loop_req' = <<r>>
            /\ reqs' = Append(reqs, ReqObject(r))
            /\ hist' = [hist EXCEPT !.cause = Append(@, ""),
                                    !.protocol = Append(@, ""),
                                    !.moved = Append(@, None),
                                    !.backend_name = Append(@, None),
                                    !.orig = Append(@, ReqObject(r)),
                                    !.assigned = Append(@, 0)]
            /\ IF cached.raised # ""
               THEN /\ pc' = "raised"
                    /\ outcome' = Raised(cached.raised, <<>>)
                    /\ buildset' = buildset
               ELSE /\ pc' = pc
                    /\ outcome' = outcome
                    /\ buildset' =
                         IF selected
                         THEN Append(buildset, [req |-> r.id,
                                                output_dir |-> output_dir])
                         ELSE buildset
    /\ UNCHANGED <<others, config, cur, python_tag, wheel_path, wheel_file,
                   build_success, build_failure, wheel_filenames, held, fs>>

\* A faulty variant of FilterEnd, which asks for the implementation tag in
\* both modes.
FilterEndAlwaysTags ==
    /\ pc = "filter"
    /\ loop_req' = <<>>
    /\ IF buildset = <<>>
       THEN /\ pc' = "returned"
            /\ outcome' = Returned(<<>>)
            /\ UNCHANGED <<python_tag, cur>>
       ELSE /\ pc' = "ensure_dir"
            /\ python_tag' = ImplementationTag
            /\ cur' = 1
            /\ outcome' = outcome
    /\ UNCHANGED <<others, config, buildset, wheel_path, wheel_file,
                   build_success, build_failure, wheel_filenames, reqs, held,
                   fs, hist>>

\* Lines 438-455: the iterable is exhausted; nothing to build returns [],
\* otherwise the second loop starts.
FilterEnd ==
    /\ pc = "filter"
    /\ loop_req' = <<>>
    /\ IF buildset = <<>>
       THEN /\ pc' = "returned"
            /\ outcome' = Returned(<<>>)
            /\ UNCHANGED <<python_tag, cur>>
       ELSE /\ pc' = "ensure_dir"
            /\ python_tag' = IF should_unpack THEN ImplementationTag ELSE None
            /\ cur' = 1
            /\ outcome' = outcome
    /\ UNCHANGED <<others, config, buildset, wheel_path, wheel_file,
                   build_success, build_failure, wheel_filenames, reqs, held,
                   fs, hist>>

\* The entry of buildset the second loop is at, and its requirement.
Entry == buildset[cur]

Rid == buildset[cur].req

InLoop(at) == pc = at /\ cur \in 1..Len(buildset)

\* Lines 458-465: ensure_dir(output_dir) succeeds.
EnsureDirOk ==
    /\ InLoop("ensure_dir")
    /\ fs' = [fs EXCEPT !.dirs = @ \cup {Entry.output_dir}]
    /\ pc' = "build_env"
    /\ UNCHANGED <<others, config, loop_req, buildset, cur, python_tag, wheel_path,
                   wheel_file, build_success, build_failure, outcome,
                   wheel_filenames, reqs, held, hist>>

\* A faulty variant of EnsureDirFails, in which the OSError is not caught.
EnsureDirFailsUncaught ==
    /\ InLoop("ensure_dir")
    /\ pc' = "raised"
    /\ outcome' = Raised("OSError", <<>>)
    /\ hist' = [hist EXCEPT !.cause[Rid] = "ensure_dir"]
    /\ UNCHANGED <<others, config, loop_req, buildset, cur, python_tag,
                   wheel_path, wheel_file, build_success, build_failure,
                   wheel_filenames, reqs, held, fs>>

\* Lines 459-465: ensure_dir(output_dir) raises OSError.
EnsureDirFails ==
    /\ InLoop("ensure_dir")
    /\ build_failure' = Append(build_failure, Rid)
    /\ hist' = [hist EXCEPT !.cause[Rid] = "ensure_dir"]
    /\ cur' = cur + 1
    /\ UNCHANGED <<others, config, pc, loop_req, buildset, python_tag, wheel_path,
                   wheel_file, build_success, outcome, wheel_filenames, reqs,
                   held, fs>>

\* Lines 288 and 299: _build_one enters req.build_env and, inside it, a
\* temporary directory.
EnterBuildEnv ==
    /\ InLoop("build_env")
    /\ held' = {[resource |-> "build_env", req |-> Rid],
                [resource |-> "temp_dir", req |-> Rid]}
    /\ pc' = "backend"
    /\ UNCHANGED <<others, config, loop_req, buildset, cur, python_tag, wheel_path,
                   wheel_file, build_success, build_failure, outcome,
                   wheel_filenames, reqs, fs, hist>>

\* The cause of a backend step that produced no wheel path.
BackendCause(built) ==
    IF built.wheel_path # None THEN ""
    ELSE IF ~built.invoked THEN "build_options"
    ELSE "backend"

\* Lines 300-303: req.use_pep517 is true (it is read here and nowhere
\* else, and the model draws it here): the PEP 517 build of the requirement.
\* req.metadata_directory is taken to be set, as preparing the requirement
\* leaves it.
BuildOnePep517 ==
    /\ InLoop("backend")
    /\ \E backend \in {Raised("BackendUnavailable", <<>>),
                       Returned(Pep517WheelName)},
          rename_raises \in BOOLEAN :
        LET built == _build_one_pep517(self_build_options, TempDir, python_tag,
                                       backend, rename_raises)
        IN  /\ wheel_path' = built.wheel_path
            /\ hist' = [hist EXCEPT
                 !.protocol[Rid] = "pep517",
                 !.invoked = IF built.invoked THEN @ \cup {Rid} ELSE @,
                 !.backend_name[Rid] = IF built.invoked THEN backend.ret
                                       ELSE None,
                 !.cause[Rid] = BackendCause(built)]
            /\ pc' = IF built.wheel_path # None THEN "move" ELSE "clean"
    /\ UNCHANGED <<others, config, loop_req, buildset, cur, python_tag, wheel_file,
                   build_success, build_failure, outcome, wheel_filenames,
                   reqs, held, fs>>

\* Lines 304-313: req.use_pep517 is false: the legacy build of the
\* requirement.
BuildOneLegacy ==
    /\ InLoop("backend")
    /\ \E command_raises \in BOOLEAN, files \in SUBSET LegacyFileNames :
        \E names \in Listings(files) :
            LET built == _build_wheel_legacy(TempDir, command_raises, names)
            IN  /\ wheel_path' = built.wheel_path
                /\ hist' = [hist EXCEPT
                     !.protocol[Rid] = "legacy",
                     !.invoked = @ \cup {Rid},
                     !.backend_name[Rid] =
                         IF built.wheel_path # None
                         THEN Basename(built.wheel_path) ELSE None,
                     !.cause[Rid] = IF built.wheel_path # None THEN ""
                                    ELSE "backend"]
                /\ pc' = IF built.wheel_path # None THEN "move" ELSE "clean"
    /\ UNCHANGED <<others, config, loop_req, buildset, cur, python_tag, wheel_file,
                   build_success, build_failure, outcome, wheel_filenames,
                   reqs, held, fs>>

\* Lines 315-326: the wheel is hashed and moved into output_dir; _build_one
\* is about to return its new path.
MoveWheelOk ==
    /\ InLoop("move")
    /\ LET dest_path == PathJoin(Entry.output_dir, Basename(wheel_path))
       IN  /\ fs' = [fs EXCEPT !.files = @ \cup {dest_path}]
           /\ hist' = [hist EXCEPT !.moved[Rid] = dest_path]
           /\ wheel_file' = dest_path
    /\ pc' = "exit_env"
    /\ UNCHANGED <<others, config, loop_req, buildset, cur, python_tag, wheel_path,
                   build_success, build_failure, outcome, wheel_filenames,
                   reqs, held>>

\* A faulty variant of MoveWheelFails, in which _build_one returns the
\* destination path although the move failed.
MoveWheelFailsReturnsPath ==
    /\ InLoop("move")
    /\ hist' = [hist EXCEPT !.cause[Rid] = "move"]
    /\ wheel_file' = PathJoin(Entry.output_dir, Basename(wheel_path))
    /\ pc' = "exit_env"
    /\ UNCHANGED <<others, config, loop_req, buildset, cur, python_tag, wheel_path,
                   build_success, build_failure, outcome, wheel_filenames,
                   reqs, held, fs>>

\* Lines 327-328: hash_file or shutil.move raises; the exception is dropped.
MoveWheelFails ==
    /\ InLoop("move")
    /\ hist' = [hist EXCEPT !.cause[Rid] = "move"]
    /\ pc' = "clean"
    /\ UNCHANGED <<others, config, loop_req, buildset, cur, python_tag, wheel_path,
                   wheel_file, build_success, build_failure, outcome,
                   wheel_filenames, reqs, held, fs>>

\* Lines 329-331 and _clean_one (lines 378-391): setup.py clean is run in
\* the source directory, its failure is logged and ignored; _build_one is
\* about to return None.
CleanOne ==
    /\ InLoop("clean")
    /\ \E clean_raises \in BOOLEAN :
        hist' = [hist EXCEPT !.cleaned = @ \cup {Rid}]
    /\ wheel_file' = None
    /\ pc' = "exit_env"
    /\ UNCHANGED <<others, config, loop_req, buildset, cur, python_tag, wheel_path,
                   build_success, build_failure, outcome, wheel_filenames,
                   reqs, held, fs>>

\* A faulty variant of ExitBuildEnv, in which the temporary directory and
\* the build environment stay held.
ExitBuildEnvLeaks ==
    /\ InLoop("exit_env")
    /\ wheel_path' = None
    /\ pc' = "after_build"
    /\ UNCHANGED <<others, config, loop_req, buildset, cur, python_tag, wheel_file,
                   build_success, build_failure, outcome, wheel_filenames,
                   reqs, held, fs, hist>>

\* The with blocks of _build_one_inside_env and _build_one are left: the
\* temporary directory and the build environment are released.
ExitBuildEnv ==
    /\ InLoop("exit_env")
    /\ held' = {}
    /\ wheel_path' = None
    /\ pc' = "after_build"
    /\ UNCHANGED <<others, config, loop_req, buildset, cur, python_tag, wheel_file,
                   build_success, build_failure, outcome, wheel_filenames,
                   reqs, fs, hist>>

\* Lines 515-516: _build_one returned None.
RecordBuildFailure ==
    /\ InLoop("after_build")
    /\ wheel_file = None
    /\ build_failure' = Append(build_failure, Rid)
    /\ cur' = cur + 1
    /\ pc' = "ensure_dir"
    /\ UNCHANGED <<others, config, loop_req, buildset, python_tag, wheel_path,
                   wheel_file, build_success, outcome, wheel_filenames, reqs,
                   held, fs, hist>>

\* A faulty variant of RecordSuccess, which puts the newest first.
RecordSuccessPrepends ==
    /\ wheel_filenames' =
         <<Relpath(wheel_file, Entry.output_dir)>> \o wheel_filenames
    /\ build_success' = <<Rid>> \o build_success
    /\ cur' = cur + 1
    /\ pc' = "ensure_dir"

\* Lines 511-514: the file name is recorded and the requirement succeeded.
RecordSuccess ==
    /\ wheel_filenames' =
         Append(wheel_filenames, Relpath(wheel_file, Entry.output_dir))
    /\ build_success' = Append(build_success, Rid)
    /\ cur' = cur + 1
    /\ pc' = "ensure_dir"

\* A faulty variant of MarkerMissing, in which the missing marker fails the
\* requirement and the loop goes on.
MarkerMissingRecorded ==
    /\ InLoop("after_build")
    /\ wheel_file # None
    /\ should_unpack
    /\ reqs[Rid].source_dir # None
    /\ build_failure' = Append(build_failure, Rid)
    /\ hist' = [hist EXCEPT !.cause[Rid] = "marker"]
    /\ cur' = cur + 1
    /\ pc' = "ensure_dir"
    /\ UNCHANGED <<others, config, loop_req, buildset, python_tag, wheel_path,
                   wheel_file, build_success, outcome, wheel_filenames, reqs,
                   held, fs>>

\* Lines 478-483: the source directory holds no delete marker (what
\* has_delete_marker_file finds there is drawn when it looks).
MarkerMissing ==
    /\ InLoop("after_build")
    /\ wheel_file # None
    /\ should_unpack
    /\ reqs[Rid].source_dir # None
    /\ pc' = "raised"
    /\ outcome' = Raised("AssertionError", <<>>)
    /\ hist' = [hist EXCEPT !.cause[Rid] = "marker"]
    /\ UNCHANGED <<others, config, loop_req, buildset, cur, python_tag,
                   wheel_path, wheel_file, build_success, build_failure,
                   wheel_filenames, reqs, held, fs>>

\* A faulty variant of RemoveTemporarySource, which does not look at what
\* _build_one returned.
RemoveTemporarySourceAnyway ==
    /\ InLoop("after_build")
    /\ should_unpack
    /\ reqs' = [reqs EXCEPT ![Rid].source_dir = None]
    /\ fs' = [fs EXCEPT !.removed = @ \cup {reqs[Rid].source_dir}]
    /\ pc' = "build_location"
    /\ UNCHANGED <<others, config, loop_req, buildset, cur, python_tag,
                   wheel_path, wheel_file, build_success, build_failure,
                   outcome, wheel_filenames, held, hist>>

\* Lines 478-485: the source directory holds the delete marker, or there is
\* no source directory; req.remove_temporary_source() removes the source
\* directory and forgets it.
RemoveTemporarySource ==
    /\ InLoop("after_build")
    /\ wheel_file # None
    /\ should_unpack
    /\ reqs' = [reqs EXCEPT ![Rid].source_dir = None]
    /\ fs' = [fs EXCEPT !.removed = @ \cup {reqs[Rid].source_dir}]
    /\ pc' = "build_location"
    /\ UNCHANGED <<others, config, loop_req, buildset, cur, python_tag,
                   wheel_path, wheel_file, build_success, build_failure,
                   outcome, wheel_filenames, held, hist>>

\* Lines 488-493: the build location becomes the source directory and the
\* link is rewritten to the built wheel, which must be a wheel.
SetBuildLocationAndLink ==
    /\ InLoop("build_location")
    /\ reqs' = [reqs EXCEPT ![Rid].source_dir = BuildLocation(Rid),
                            ![Rid].link = path_to_url(wheel_file)]
    /\ fs' = [fs EXCEPT !.dirs = @ \cup {BuildLocation(Rid)}]
    /\ IF IsWheelUrl(path_to_url(wheel_file))
       THEN /\ pc' = "unpack"
            /\ outcome' = outcome
            /\ hist' = [hist EXCEPT !.assigned[Rid] = @ + 1]
       ELSE /\ pc' = "raised"
            /\ outcome' = Raised("AssertionError", <<>>)
            /\ hist' = [hist EXCEPT !.cause[Rid] = "not a wheel",
                                    !.assigned[Rid] = @ + 1]
    /\ UNCHANGED <<others, config, loop_req, buildset, cur, python_tag,
                   wheel_path, wheel_file, build_success, build_failure,
                   wheel_filenames, held>>

\* Line 495 and lines 511-514: the wheel is unpacked into the new source
\* directory.
UnpackOk ==
    /\ InLoop("unpack")
    /\ fs' = [fs EXCEPT !.unpacked =
                 @ \cup {[file |-> FilePath(reqs[Rid].link),
                          into |-> reqs[Rid].source_dir]}]
    /\ RecordSuccess
    /\ UNCHANGED <<others, config, loop_req, buildset, python_tag, wheel_path,
                   wheel_file, build_failure, outcome, reqs, held, hist>>

\* Lines 485-495: remove_temporary_source, ensure_build_location or
\* unpack_file raises; nothing in build() catches it.
PlacementRaises ==
    /\ \/ InLoop("after_build") /\ wheel_file # None /\ should_unpack
       \/ InLoop("build_location")
       \/ InLoop("unpack")
    /\ pc' = "raised"
    /\ outcome' = Raised(IF pc = "unpack" THEN "InstallationError"
                         ELSE "OSError", <<>>)
    /\ hist' = [hist EXCEPT !.cause[Rid] =
                   IF pc = "after_build" THEN "remove_source"
                   ELSE IF pc = "build_location" THEN "build_location"
                   ELSE "unpack"]
    /\ UNCHANGED <<others, config, loop_req, buildset, cur, python_tag,
                   wheel_path, wheel_file, build_success, build_failure,
                   wheel_filenames, reqs, held, fs>>

\* A faulty variant of CopyOk, in which the requirement's link is rewritten
\* to the built wheel in the mode that copies it.
CopyOkRewritesLink ==
    /\ InLoop("after_build")
    /\ wheel_file # None
    /\ ~should_unpack
    /\ fs' = [fs EXCEPT
         !.dirs = @ \cup {self_wheel_dir},
         !.files = @ \cup {PathJoin(self_wheel_dir,
             Basename(PathJoin(Entry.output_dir, wheel_file)))}]
    /\ reqs' = [reqs EXCEPT ![Rid].link = path_to_url(wheel_file)]
    /\ RecordSuccess
    /\ UNCHANGED <<others, config, loop_req, buildset, python_tag, wheel_path,
                   wheel_file, build_failure, outcome, held, hist>>

\* Lines 497-503 and 511-514: the wheel is copied into self._wheel_dir.
CopyOk ==
    /\ InLoop("after_build")
    /\ wheel_file # None
    /\ ~should_unpack
    /\ fs' = [fs EXCEPT
         !.dirs = @ \cup {self_wheel_dir},
         !.files = @ \cup {PathJoin(self_wheel_dir,
             Basename(PathJoin(Entry.output_dir, wheel_file)))}]
    /\ RecordSuccess
    /\ UNCHANGED <<others, config, loop_req, buildset, python_tag, wheel_path,
                   wheel_file, build_failure, outcome, reqs, held, hist>>

\* A faulty variant of CopyFails, in which the requirement whose copy failed
\* is counted as built.
CopyFailsCountedBuilt ==
    /\ InLoop("after_build")
    /\ wheel_file # None
    /\ ~should_unpack
    /\ hist' = [hist EXCEPT !.cause[Rid] = "copy"]
    /\ RecordSuccess
    /\ UNCHANGED <<others, config, loop_req, buildset, python_tag, wheel_path,
                   wheel_file, build_failure, outcome, reqs, held, fs>>

\* Lines 504-510: ensure_dir(self._wheel_dir) or shutil.copy raises OSError.
CopyFails ==
    /\ InLoop("after_build")
    /\ wheel_file # None
    /\ ~should_unpack
    /\ build_failure' = Append(build_failure, Rid)
    /\ hist' = [hist EXCEPT !.cause[Rid] = "copy"]
    /\ cur' = cur + 1
    /\ pc' = "ensure_dir"
    /\ UNCHANGED <<others, config, loop_req, buildset, python_tag, wheel_path,
                   wheel_file, build_success, outcome, wheel_filenames, reqs,
                   held, fs>>

\* Lines 518-530: the second loop is over; build_failure is returned.
BuildReturn ==
    /\ pc = "ensure_dir"
    /\ cur > Len(buildset)
    /\ pc' = "returned"
    /\ outcome' = Returned(build_failure)
    /\ UNCHANGED <<others, config, loop_req, buildset, cur, python_tag, wheel_path,
                   wheel_file, build_success, build_failure, wheel_filenames,
                   reqs, held, fs, hist>>

Next ==
    \/ AssertMode
    \/ FilterNext
    \/ FilterEnd
    \/ EnsureDirOk
    \/ EnsureDirFails
    \/ EnterBuildEnv
    \/ BuildOnePep517
    \/ BuildOneLegacy
    \/ MoveWheelOk
    \/ MoveWheelFails
    \/ CleanOne
    \/ ExitBuildEnv
    \/ RecordBuildFailure
    \/ MarkerMissing
    \/ RemoveTemporarySource
    \/ SetBuildLocationAndLink
    \/ UnpackOk
    \/ PlacementRaises
    \/ CopyOk
    \/ CopyFails
    \/ BuildReturn

Spec == Init /\ [][Next]_vars

(***************************************************************************)
(* The specifications of the pure functions.                               *)
(***************************************************************************)
InitTag ==
    TagInit /\ policy = PolicyIdle /\ legacy = LegacyIdle /\ BuildIdle

NextTag == CallReplacePythonTag

SpecTag == InitTag /\ [][NextTag]_vars

InitPolicy ==
    PolicyInit /\ tag = TagIdle /\ legacy = LegacyIdle /\ BuildIdle

NextPolicy == CallShouldBuild \/ CallShouldCache

SpecPolicy == InitPolicy /\ [][NextPolicy]_vars

InitLegacy ==
    LegacyInit /\ tag = TagIdle /\ policy = PolicyIdle /\ BuildIdle

NextLegacy == CallBuildWheelLegacy

SpecLegacy == InitLegacy /\ [][NextLegacy]_vars

(***************************************************************************)
(* Claims about the pure functions.                                        *)
(***************************************************************************)
\* The requirement flags under which the ordered rule list of should_build
\* answers true: not a constraint, not already a wheel, and then either a
\* wheel is needed, or the requirement is not editable, has a source
\* directory and binaries are allowed for it.
RuleListSaysBuild(req, need_wheel, allowed) ==
    /\ ~req.constraint
    /\ ~req.is_wheel
    /\ \/ need_wheel
       \/ (~req.editable /\ req.has_source_dir /\ allowed)

PolicyAllowed == policy.req.id \in policy.check_binary_allowed

\* C4: for every combination of constraint, is_wheel, editable, source_dir,
\* need_wheel and the binary-allowed answer, should_build returns the value
\* of the ordered rule list (constraint -> false; already a wheel -> false;
\* need_wheel -> true; editable or no source directory -> false; binary
\* disallowed -> false; otherwise true); it is false for every constraint
\* and every already-built requirement whatever the other flags are.
C4_ShouldBuildRuleList ==
    policy.pc = "should_build" =>
        /\ policy.built =
             RuleListSaysBuild(policy.req, policy.need_wheel, PolicyAllowed)
        /\ policy.req.constraint => ~policy.built
        /\ policy.req.is_wheel => ~policy.built

C4_Witness ==
    /\ policy.pc = "should_build"
    /\ policy.req.constraint
    /\ ~policy.req.is_wheel
    /\ policy.need_wheel
    /\ ~policy.built

\* C5: should_cache returns true only if should_build(req, need_wheel=False)
\* returns true: a constraint, already-built, editable, source-less or
\* binary-disallowed requirement is never cacheable, also when
\* should_build(req, need_wheel=True) accepts it.
C5_CacheOnlyIfInstallWouldBuild ==
    (policy.pc = "should_cache" /\ policy.cached.ret) =>
        /\ should_build(policy.req, FALSE, policy.check_binary_allowed)
        /\ ~policy.req.constraint
        /\ ~policy.req.is_wheel
        /\ ~policy.req.editable
        /\ policy.req.has_source_dir
        /\ PolicyAllowed

C5_Witness ==
    /\ policy.pc = "should_cache"
    /\ policy.cached.ret
    /\ policy.cached.raised = ""

\* C6: for a requirement whose link is a VCS link, should_cache is false
\* whenever the checkout is not an immutable revision, it returns the
\* backend's answer whenever the backend is asked (true on an immutable
\* pin), and the name-version match on the link's base name is never made.
C6_VcsLinkCachedByImmutability ==
    (policy.pc = "should_cache" /\ policy.req.link.is_vcs) =>
        /\ ~policy.cached.egg_asked
        /\ ~policy.is_immutable => ~policy.cached.ret
        /\ policy.cached.vcs_asked => policy.cached.ret = policy.is_immutable

C6_Witness ==
    /\ policy.pc = "should_cache"
    /\ policy.req.link.is_vcs
    /\ policy.cached.vcs_asked
    /\ ~policy.is_immutable
    /\ _contains_egg_info(policy.req.link.base)
    /\ ~policy.cached.ret

\* The lexicographically smallest of a non-empty set of names.
Smallest(files) ==
    CHOOSE f \in files : \A g \in files : g = f \/ StrLess(f, g)

\* C8: the legacy protocol, given the names found in the destination
\* directory after the build command: none yields None; one yields that
\* file's path; two or more yield the path of the lexicographically smallest
\* name, in whatever order the directory listing returned them. A failing
\* build command yields None without listing the directory.
C8_LegacyPicksSmallestName ==
    legacy.pc = "returned" =>
        /\ legacy.command_raises =>
             (legacy.out.wheel_path = None /\ ~legacy.out.listed)
        /\ (~legacy.command_raises /\ legacy.files = {}) =>
             legacy.out.wheel_path = None
        /\ (~legacy.command_raises /\ legacy.files # {}) =>
             /\ legacy.out.listed
             /\ legacy.out.wheel_path =
                  PathJoin(TempDir, Smallest(legacy.files))
        /\ \A f \in legacy.files :
             (~legacy.command_raises /\ legacy.files = {f}) =>
                 legacy.out.wheel_path = PathJoin(TempDir, f)

C8_Witness ==
    /\ legacy.pc = "returned"
    /\ ~legacy.command_raises
    /\ Cardinality(legacy.files) >= 2
    /\ legacy.names[1] # Smallest(legacy.files)
    /\ legacy.out.wheel_path = PathJoin(TempDir, Smallest(legacy.files))

\* The dash-separated fields of the name given to replace_python_tag, and of
\* the name it returned.
FieldsBefore == Split(tag.wheelname, "-")

FieldsAfter == Split(tag.out.ret, "-")

\* The call returned a name of as many fields that differs from the name it
\* was given in field k alone, which holds the new tag.
OnlyFieldReplaced(k) ==
    /\ tag.out.raised = ""
    /\ Len(FieldsAfter) = Len(FieldsBefore)
    /\ FieldsAfter[k] = tag.new_tag
    /\ \A j \in 1..Len(FieldsBefore) : j # k => FieldsAfter[j] = FieldsBefore[j]

\* C10 as stated: of the five fields (distribution, version, build-tag,
\* python-tag, abi-platform-tag) replace_python_tag changes the fourth, the
\* python-tag, alone.
C10_AsStated ==
    (tag.pc = "returned" /\ Len(FieldsBefore) = 5) => OnlyFieldReplaced(4)

\* C10, amended: applied to a name of five dash-separated fields,
\* replace_python_tag changes the third field alone (the third from last,
\* parts[-3]): the field count and the other four fields are unchanged and
\* the third field is the new tag.
C10_ThirdFromLastFieldReplaced ==
    (tag.pc = "returned" /\ Len(FieldsBefore) = 5) => OnlyFieldReplaced(3)

C10_Witness ==
    /\ tag.pc = "returned"
    /\ tag.wheelname = <<"a", "-", "b", "-", "a", "-", "b", "-", "a">>
    /\ tag.new_tag = <<"p", "y">>
    /\ tag.out.ret = <<"a", "-", "b", "-", "p", "y", "-", "b", "-", "a">>

(***************************************************************************)
(* Claims about WheelBuilder.build.                                        *)
(***************************************************************************)
Range(s) == {s[i] : i \in DOMAIN s}

\* The requirements selected for building.
BuildIds == {buildset[k].req : k \in 1..Len(buildset)}

\* The failures build() catches and the ones it lets through.
RecoverableCauses == {"ensure_dir", "backend", "build_options", "move", "copy"}

AbortCauses ==
    {"marker", "remove_source", "build_location", "not a wheel", "unpack"}

\* The requirements of the batch that a directory creation, a backend
\* build, a move or a copy failed for.
FailedIds == {id \in BuildIds : hist.cause[id] \in RecoverableCauses}

\* The second loop is done with entry k.
Handled(k) ==
    buildset[k].req \in Range(build_success) \cup Range(build_failure)

\* C1: when build() returns normally from a batch of N requirements to
\* build of which M failed (directory creation, backend build, move or
\* copy), the list it returns holds exactly those M, once each, the other
\* N-M are in build_success, once each, with one file name each in
\* wheel_filenames, and no requirement is in both lists.
C1_FailedExactlyTheFailures ==
    pc = "returned" =>
        /\ Range(outcome.ret) = FailedIds
        /\ Len(outcome.ret) = Cardinality(FailedIds)
        /\ Range(build_success) = BuildIds \ FailedIds
        /\ Len(build_success) = Cardinality(BuildIds \ FailedIds)
        /\ Len(wheel_filenames) = Len(build_success)
        /\ \A j \in 1..Len(build_success) :
             wheel_filenames[j] = Basename(hist.moved[build_success[j]])
        /\ Range(build_success) \cap Range(outcome.ret) = {}

C1_Witness ==
    /\ pc = "returned"
    /\ Len(buildset) = 2
    /\ Len(outcome.ret) = 1
    /\ Len(build_success) = 1

C3_MissingMarkerAborts ==
    \A k \in 1..Len(buildset) :
        hist.cause[buildset[k].req] = "marker" =>
            LET id == buildset[k].req
            IN  /\ should_unpack
                /\ hist.moved[id] # None
                /\ pc = "raised" /\ cur = k
                /\ outcome.raised = "AssertionError"
                /\ reqs[id].source_dir = SourceDir(id)
                /\ SourceDir(id) \notin fs.removed
                /\ reqs[id].link = SourceUrl(id)
                /\ \A j \in (k + 1)..Len(buildset) :
                     /\ hist.protocol[buildset[j].req] = ""
                     /\ buildset[j].req \notin hist.invoked
                     /\ ~Handled(j)
                /\ ~ENABLED Next

C3_Witness ==
    /\ pc = "raised"
    /\ cur \in 1..Len(buildset)
    /\ hist.cause[Rid] = "marker"
    /\ cur < Len(buildset)

\* C7: the output directory resolved for a requirement is the persistent
\* cache's path for its link only when a cache directory is configured and
\* should_cache approves the requirement, and is the ephemeral path for its
\* link otherwise; a built wheel is moved into the directory resolved for
\* its own requirement.
C7_PersistentOnlyIfCacheable ==
    /\ \A k \in 1..Len(buildset) :
         LET id == buildset[k].req
             persistent == PathJoin(CacheRoot, SourceUrl(id))
             ephemeral == PathJoin(EphemRoot, SourceUrl(id))
         IN  /\ buildset[k].output_dir \in {persistent, ephemeral}
             /\ buildset[k].output_dir = persistent => cache_dir # None
             /\ (loop_req # <<>> /\ loop_req[1].id = id) =>
                  LET r == loop_req[1]
                  IN  buildset[k].output_dir = persistent <=>
                        /\ cache_dir # None
                        /\ should_cache(r, BinaryAllowed(r),
                                        r.is_immutable_rev).ret
                        /\ IF r.link.is_vcs THEN r.is_immutable_rev
                           ELSE _contains_egg_info(r.link.base)
             /\ hist.moved[id] # None =>
                  /\ hist.moved[id] \in fs.files
                  /\ \E name \in {Pep517WheelName, LegacyWheelName, StrayName,
                                  replace_python_tag(Pep517WheelName,
                                                     ImplementationTag).ret} :
                       hist.moved[id] = buildset[k].output_dir \o <<"/">> \o name

C7_Witness ==
    /\ \E k \in 1..Len(buildset) :
         /\ buildset[k].output_dir =
              PathJoin(CacheRoot, SourceUrl(buildset[k].req))
         /\ hist.moved[buildset[k].req] # None
    /\ \E k \in 1..Len(buildset) :
         /\ buildset[k].output_dir =
              PathJoin(EphemRoot, SourceUrl(buildset[k].req))
         /\ hist.moved[buildset[k].req] # None
    /\ cache_dir # None

\* C9: for a PEP 517 requirement, when the builder has build options, the
\* build is rejected without the backend's build_wheel being called; the
\* requirement is recorded as failed and the rest of the batch goes on.
C9_Pep517RejectsBuildOptions ==
    \A k \in 1..Len(buildset) :
        LET id == buildset[k].req
        IN  (hist.protocol[id] = "pep517" /\ self_build_options # <<>>) =>
                /\ id \notin hist.invoked
                /\ hist.cause[id] = "build_options"
                /\ hist.moved[id] = None
                /\ id \notin Range(build_success)
                /\ ~(pc = "raised" /\ cur = k)
                /\ k < cur => id \in Range(build_failure)
                /\ pc = "returned" =>
                     /\ id \in Range(outcome.ret)
                     /\ \A j \in 1..Len(buildset) : Handled(j)

C9_Witness ==
    /\ pc = "returned"
    /\ self_build_options # <<>>
    /\ Len(buildset) = 2
    /\ hist.protocol[buildset[1].req] = "pep517"
    /\ buildset[2].req \in Range(build_success)

\* C11 as stated: setup.py clean is attempted after the failed build of a
\* legacy requirement only, never for a PEP 517 requirement.
C11_CleanForLegacyOnly ==
    \A id \in hist.cleaned : hist.protocol[id] = "legacy"

\* The positions of build() inside the two with blocks of _build_one and
\* _build_one_inside_env.
InsideBuildEnv == {"backend", "move", "clean", "exit_env"}

\* The scoped resources of _build_one for the requirement id.
ResourcesOf(id) ==
    {[resource |-> "build_env", req |-> id],
     [resource |-> "temp_dir", req |-> id]}

\* C12: the build environment and the temporary directory are held only
\* between entering _build_one for a requirement and leaving it, by that
\* requirement alone; whatever happened inside (success, backend failure,
\* options conflict, move failure, clean failure) both are released when the
\* next requirement starts, when the marker is checked, when the run aborts
\* or returns.
C12_BuildResourcesScoped ==
    /\ pc \in InsideBuildEnv => held = ResourcesOf(Rid)
    /\ pc \notin InsideBuildEnv => held = {}
    /\ \A h \in held : h.req = Rid /\ hist.cause[h.req] \notin AbortCauses
    /\ \A k \in 1..Len(buildset) :
         (hist.protocol[buildset[k].req] # "" /\
          (k < cur \/ pc \in {"after_build", "build_location", "unpack",
                              "raised", "returned"})) =>
             held \cap ResourcesOf(buildset[k].req) = {}

C12_Witness ==
    /\ pc = "backend"
    /\ cur = 2
    /\ held = ResourcesOf(Rid)
    /\ hist.cause[buildset[1].req] = "move"
    /\ buildset[1].req \in hist.cleaned

\* The requirement object id is as it was handed to build().
Untouched(id) == reqs[id] = hist.orig[id]

\* C13: build() assigns a requirement's source_dir and link at most once,
\* and only in Install mode, for a requirement of the batch whose own build
\* succeeded and was moved, when the loop is at it; without that assignment
\* the link is the original one and the source directory is the original one
\* or, once the source was removed, none. In ArtifactOutput mode, and for
\* every skipped or failed requirement and every requirement the loop has
\* not reached, source_dir and link are as they were handed in.
C13_SourceAndLinkAssignedOnce ==
    \A id \in 1..Len(reqs) :
        /\ hist.assigned[id] <= 1
        /\ ~Untouched(id) =>
             /\ should_unpack
             /\ hist.moved[id] # None
             /\ hist.cause[id] \notin RecoverableCauses \cup {"marker"}
             /\ \E k \in 1..Len(buildset) : buildset[k].req = id /\ k <= cur
        /\ hist.assigned[id] = 1 => ~Untouched(id)
        /\ hist.assigned[id] = 0 =>
             /\ reqs[id].link = hist.orig[id].link
             /\ reqs[id].source_dir \in {hist.orig[id].source_dir, None}
        /\ ~should_unpack => Untouched(id)
        /\ id \notin BuildIds => Untouched(id)
        /\ id \in Range(build_failure) => Untouched(id)

C13_Witness ==
    /\ pc = "returned"
    /\ should_unpack
    /\ Len(reqs) = 2
    /\ \E id \in 1..Len(reqs) :
         /\ hist.assigned[id] = 1
         /\ reqs[id].link # hist.orig[id].link
         /\ reqs[id].source_dir = BuildLocation(id)
    /\ \E id \in 1..Len(reqs) : id \in Range(build_failure) /\ Untouched(id)

\* How many times x is in the list.
Count(list, x) == Cardinality({i \in DOMAIN list : list[i] = x})

PlacementCauses == {"ensure_dir", "move", "copy"}

\* C14: a requirement whose output directory could not be created, whose
\* wheel could not be moved into it, or whose wheel could not be copied to
\* the wheel directory is in build_failure exactly once as soon as the loop
\* has left it, is never in build_success, gets no file name, and does not
\* stop the run: the later requirements are all handled. When the directory
\* creation failed, no build was started for it.
C14_PlacementFailureRecordedOnce ==
    /\ Len(wheel_filenames) = Len(build_success)
    /\ \A k \in 1..Len(buildset) :
         LET id == buildset[k].req
         IN  hist.cause[id] \in PlacementCauses =>
               /\ Count(build_failure, id) = IF k < cur THEN 1 ELSE 0
               /\ id \notin Range(build_success)
               /\ \A j \in 1..Len(wheel_filenames) :
                    build_success[j] # id
               /\ ~(pc = "raised" /\ cur = k)
               /\ pc = "returned" =>
                    \A j \in (k + 1)..Len(buildset) : Handled(j)
               /\ hist.cause[id] = "ensure_dir" =>
                    /\ hist.protocol[id] = ""
                    /\ id \notin hist.invoked
                    /\ id \notin hist.cleaned
               /\ hist.cause[id] = "move" => hist.moved[id] = None

C14_Witness ==
    /\ pc = "returned"
    /\ Len(buildset) = 2
    /\ hist.cause[buildset[1].req] = "move"
    /\ outcome.ret = <<buildset[1].req>>
    /\ build_success = <<buildset[2].req>>

\* The output directories a requirement's link may resolve to.
OutputDirsOf(id) ==
    {PathJoin(CacheRoot, SourceUrl(id)), PathJoin(EphemRoot, SourceUrl(id))}

\* C15: a requirement is left out of buildset exactly when should_build
\* says no; a requirement left out gets no output directory and no build
\* and is in neither list; when build() returns, every requirement handed
\* in is in exactly one of: skipped, build_success, build_failure, once, with
\* one file name per built requirement; when all were skipped the result is
\* the empty list and nothing was created or built.
C15_OneTerminalStateEach ==
    /\ (pc = "filter" /\ loop_req # <<>>) =>
         LET r == loop_req[1]
         IN  r.id \in BuildIds <=>
               should_build(r, ~should_unpack, BinaryAllowed(r))
    /\ \A id \in 1..Len(reqs) :
         id \notin BuildIds =>
             /\ hist.protocol[id] = ""
             /\ id \notin hist.invoked
             /\ hist.moved[id] = None
             /\ OutputDirsOf(id) \cap fs.dirs = {}
             /\ id \notin Range(build_success) \cup Range(build_failure)
    /\ pc = "returned" =>
         /\ \A id \in 1..Len(reqs) :
              Count(build_success, id) + Count(outcome.ret, id) =
                  IF id \in BuildIds THEN 1 ELSE 0
         /\ Len(wheel_filenames) = Len(build_success)
         /\ buildset = <<>> =>
              /\ outcome.ret = <<>>
              /\ fs.dirs = {} /\ fs.files = {}
              /\ hist.invoked = {}
              /\ build_success = <<>>

C15_Witness ==
    /\ pc = "returned"
    /\ Len(reqs) = 2
    /\ 1 \notin BuildIds
    /\ build_success = <<2>>
    /\ outcome.ret = <<>>

\* The list is in the order of the input.
Increasing(list) ==
    \A i, j \in DOMAIN list : i < j => list[i] < list[j]

\* C16: the second loop handles buildset, which is in input order, one
\* entry at a time: the entries before the current one are in one of the two
\* lists, the current one and the later ones are in neither, and a later
\* one has no output directory created and no build started; build_success,
\* build_failure and wheel_filenames are in input order.
C16_SequentialInInputOrder ==
    /\ Increasing([k \in 1..Len(buildset) |-> buildset[k].req])
    /\ \A k \in 1..Len(buildset) :
         LET id == buildset[k].req
         IN  /\ k < cur => Handled(k)
             /\ k >= cur => ~Handled(k)
             /\ k > cur =>
                  /\ buildset[k].output_dir \notin fs.dirs
                  /\ hist.protocol[id] = ""
                  /\ id \notin hist.invoked
                  /\ hist.moved[id] = None
    /\ Increasing(build_success)
    /\ Increasing(build_failure)
    /\ Len(wheel_filenames) = Len(build_success)
    /\ \A j \in 1..Len(build_success) :
         wheel_filenames[j] = Basename(hist.moved[build_success[j]])

C16_Witness ==
    /\ pc = "backend"
    /\ cur = 2
    /\ build_success = <<1>>
    /\ buildset[2].output_dir \in fs.dirs

\* The precondition of build(): Install mode has no wheel directory,
\* ArtifactOutput mode has one.
ModeOk ==
    \/ should_unpack /\ self_wheel_dir = None
    \/ ~should_unpack /\ self_wheel_dir # None

\* C17: when the mode and the wheel directory do not agree, build() fails
\* its assertion before anything else: no requirement was taken from the
\* iterable, selected, built or changed, nothing was created. Every run that
\* gets past the assertion has ModeOk.
C17_ModeAssertedFirst ==
    /\ (pc # "start" /\ ~ModeOk) =>
         /\ pc = "raised"
         /\ outcome.raised = "AssertionError"
         /\ reqs = <<>> /\ buildset = <<>> /\ cur = 0
         /\ hist.invoked = {} /\ hist.protocol = <<>>
         /\ fs.dirs = {} /\ fs.files = {} /\ fs.removed = {}
         /\ build_success = <<>> /\ build_failure = <<>>
    /\ (pc \notin {"start", "raised"} \/ reqs # <<>>) => ModeOk

C17_Witness ==
    /\ pc = "raised"
    /\ should_unpack
    /\ self_wheel_dir # None
    /\ reqs = <<>>

\* C18: should_cache never fails the assertions of its VCS branch: for a
\* VCS link of an editable or source-less requirement it returns False from
\* the should_build guard, without asking the VCS backend.
C18_VcsAssertionsHold ==
    policy.pc = "should_cache" =>
        /\ policy.cached.raised = ""
        /\ (policy.req.link.is_vcs /\
            (policy.req.editable \/ ~policy.req.has_source_dir)) =>
               /\ ~should_build(policy.req, FALSE, policy.check_binary_allowed)
               /\ ~policy.cached.ret
               /\ ~policy.cached.vcs_asked
        /\ policy.cached.vcs_asked =>
               ~policy.req.editable /\ policy.req.has_source_dir

C18_Witness ==
    /\ policy.pc = "should_cache"
    /\ policy.req.link.is_vcs
    /\ policy.req.editable
    /\ policy.req.has_source_dir
    /\ ~policy.req.constraint /\ ~policy.req.is_wheel
    /\ PolicyAllowed
    /\ ~policy.cached.ret

\* The steps of the placement of requirement id that are done.
Removed(id) == SourceDir(id) \in fs.removed

Unpacked(id) == \E u \in fs.unpacked : u.into = BuildLocation(id)

\* C19: in Install mode the steps on a requirement come in one order, each
\* after the one before it is done: the backend built the wheel, the wheel
\* was moved into the requirement's output directory, the marker was found,
\* the source was removed, the build location became source_dir and the
\* link was rewritten to the moved wheel, the wheel was unpacked there. The
\* source of a requirement whose build or move failed is never removed, and
\* nothing is removed or unpacked in the other mode.
C19_PlacementStepsInOrder ==
    /\ ~should_unpack => fs.removed = {} /\ fs.unpacked = {}
    /\ \A k \in 1..Len(buildset) :
         LET id == buildset[k].req
         IN  /\ hist.moved[id] # None =>
                  /\ id \in hist.invoked
                  /\ hist.moved[id] \in fs.files
                  /\ hist.cause[id] \notin {"backend", "build_options", "move"}
             /\ Removed(id) =>
                  /\ should_unpack
                  /\ hist.moved[id] # None
                  /\ hist.cause[id] \notin RecoverableCauses \cup {"marker"}
             /\ hist.assigned[id] = 1 =>
                  /\ Removed(id)
                  /\ reqs[id].source_dir = BuildLocation(id)
                  /\ BuildLocation(id) \in fs.dirs
                  /\ reqs[id].link = path_to_url(hist.moved[id])
                  /\ IsPrefix(buildset[k].output_dir \o <<"/">>,
                              FilePath(reqs[id].link))
             /\ Unpacked(id) =>
                  /\ hist.assigned[id] = 1
                  /\ IsWheelUrl(reqs[id].link)
                  /\ [file |-> hist.moved[id], into |-> BuildLocation(id)]
                       \in fs.unpacked
             /\ hist.cause[id] \in {"backend", "build_options", "move"} =>
                  /\ ~Removed(id)
                  /\ Untouched(id)
                  /\ ~Unpacked(id)

C19_Witness ==
    /\ pc = "returned"
    /\ should_unpack
    /\ Len(reqs) = 2
    /\ Unpacked(1)
    /\ Removed(1)
    /\ hist.cause[2] = "backend"
    /\ ~Removed(2)

\* C20: build() asks for a python tag in Install mode only, and it is the
\* implementation tag. A wheel built with PEP 517 keeps the name
\* backend.build_wheel returned in ArtifactOutput mode and has that name
\* with the implementation tag put in by replace_python_tag in Install mode.
C20_TagOverrideInInstallModeOnly ==
    /\ (pc \notin {"start", "filter"} /\ buildset # <<>>) =>
         python_tag = IF should_unpack THEN ImplementationTag ELSE None
    /\ \A k \in 1..Len(buildset) :
         LET id == buildset[k].req
             built == IF pc = "move" /\ cur = k THEN wheel_path
                      ELSE hist.moved[id]
         IN  (hist.protocol[id] = "pep517" /\ built # None) =>
                 Basename(built) =
                     IF should_unpack
                     THEN replace_python_tag(hist.backend_name[id],
                                             ImplementationTag).ret
                     ELSE hist.backend_name[id]

C20_Witness ==
    /\ should_unpack
    /\ \E k \in 1..Len(buildset) :
         LET id == buildset[k].req
         IN  /\ hist.protocol[id] = "pep517"
             /\ hist.moved[id] # None
             /\ hist.backend_name[id] = Pep517WheelName
             /\ Basename(hist.moved[id]) # Pep517WheelName

====
